---- MODULE Spec2Model ----
(***************************************************************************)
(* Model of the gradient-descent visualisation's training session: the    *)
(* Svelte stores (stores.ts), the sidebar controller (Sidebar.svelte), the *)
(* drag handler of the gradient-field view (LossLandscape.svelte), the    *)
(* problem definitions (problems.ts) and the optimizer step                *)
(* (gradientDescent.ts).                                                   *)
(*                                                                         *)
(* Numbers are fixed-point integers in units of 1/Scale; a product is      *)
(* rescaled by FMul and a quotient by integer division, which stands for   *)
(* the rounding of IEEE doubles.  Math.random() is a pseudo-random draw    *)
(* Rand(seed, k) whose seed is chosen nondeterministically.                *)
(*                                                                         *)
(* One action is one JavaScript task (an event handler or timer callback   *)
(* run to completion); component variables declared with "$:" are          *)
(* refreshed in the microtask that follows each task, so at the start of   *)
(* every task they equal the stores they mirror.                           *)
(***************************************************************************)
EXTENDS Integers, Sequences, FiniteSets, TLC

VARIABLES
    mounted,                 \* App.svelte onMount has run
    selectedProblem,         \* stores.ts selectedProblem
    datasetStore,            \* stores.ts datasetStore
    parametersStore,         \* stores.ts parametersStore
    trainingStore,           \* stores.ts trainingStore
    historyStore,            \* stores.ts historyStore
    isTraining,              \* Sidebar.svelte local flag
    trainingInterval,        \* Sidebar.svelte timer handle (NoTimer = null)
    startingStepForProgress, \* Sidebar.svelte
    timers,                  \* the browser's active interval timers with their closures
    dragCount,               \* drag events since the history was last cleared
    lastOp,                  \* the handler that ran last, and its input
    themeStore,              \* stores.ts themeStore
    resizeTimer,           \* LossLandscape.svelte: the resize timeout is pending
    debounceTimeout,         \* Sidebar.svelte: the numPoints debounce timeout is armed
    pendingFrames,           \* requestAnimationFrame callbacks waiting to regenerate
    configCount,             \* settings changed since the page was loaded
    call                     \* the library function called last: inputs and result

vars == <<mounted, selectedProblem, datasetStore, parametersStore, trainingStore,
          historyStore, isTraining, trainingInterval, startingStepForProgress,
          timers, dragCount, lastOp, themeStore, resizeTimer, debounceTimeout,
          pendingFrames, configCount, call>>

(* what the training session's handlers never touch *)
auxVars == <<themeStore, resizeTimer, debounceTimeout, pendingFrames, configCount,
            call>>

----------------------------------------------------------------------------
(* Bounds of the model *)

MaxHist == 4        \* history length up to which ticks and drags are explored
MaxDrags == 2       \* drag events explored per history
MaxTimers == 2      \* interval timers the browser can hold at once
RunMaxHist == 12    \* history length explored when whole runs are followed
MaxRunDrags == 1    \* drag events explored per history when whole runs are followed
MaxChanges == 1     \* settings changes and redraws explored per page load
ConfigMaxHist == 2  \* history length explored next to settings changes
MaxEdits == 3       \* stepper clicks and text edits explored per page load

(* Fixed-point scale: 100 units = 1.0 *)
Scale == 10 * 10

(* The learning rate is kept finer, 10000 units = 1.0, so that its smallest
   setting 0.0001 is one unit *)
LrScale == Scale * Scale

ProblemTypes == {"linear-regression", "logistic-regression", "polynomial-regression"}

(* seeds of the pseudo-random draws *)
Seeds == {1}

NoTimer == 0
NoLabel == 0 - 1

----------------------------------------------------------------------------
(* Arithmetic.  A number is a fixed-point integer of magnitude up to MaxValue, or
   one of Infinity, NegInfinity and NaN, on which the operators follow IEEE 754.
   The three are written as integers far outside the finite range, spaced so that
   a sum inside the range can only come from two finite numbers *)

MaxValue == Scale * Scale * Scale * 10
MinValue == 0 - MaxValue
Infinity == 10 * MaxValue
NegInfinity == 0 - 30 * MaxValue
NaN == 90 * MaxValue

(* factors up to MaxFactor multiply without leaving the finite range *)
MaxFactor == Scale * Scale * 3

IsNaN(x) == x = NaN
IsFinite(x) == x <= MaxValue /\ x >= MinValue

(* x + y where the plain sum left the finite range *)
PlusSpecial(x, y) ==
    IF IsNaN(x) \/ IsNaN(y) THEN NaN
    ELSE IF IsFinite(x) /\ IsFinite(y) THEN (IF x + y > 0 THEN Infinity ELSE NegInfinity)
    ELSE IF IsFinite(x) THEN y
    ELSE IF IsFinite(y) \/ x = y THEN x
    ELSE NaN

(* x + y *)
Plus(x, y) ==
    LET v == x + y
    IN IF v <= MaxValue /\ v >= MinValue THEN v ELSE PlusSpecial(x, y)

(* -x *)
Negate(x) ==
    IF x <= MaxValue /\ x >= MinValue THEN 0 - x
    ELSE IF x = Infinity THEN NegInfinity
    ELSE IF x = NegInfinity THEN Infinity
    ELSE NaN

(* x - y *)
Minus(x, y) == Plus(x, Negate(y))

Sign(x) == IF x > 0 THEN 1 ELSE IF x < 0 THEN 0 - 1 ELSE 0
Abs(x) == IF x < 0 THEN 0 - x ELSE x

(* x * y where a factor is large or not finite; the product of the magnitudes
   is taken digit group by digit group, and rounded down like the plain product *)
MulSpecial(x, y, scale) ==
    IF IsNaN(x) \/ IsNaN(y) THEN NaN
    ELSE IF x = 0 \/ y = 0 THEN (IF IsFinite(x) /\ IsFinite(y) THEN 0 ELSE NaN)
    ELSE IF ~(IsFinite(x) /\ IsFinite(y))
         \/ (Abs(x) >= scale /\ Abs(y) > MaxValue \div (Abs(x) \div scale))
         THEN (IF Sign(x) = Sign(y) THEN Infinity ELSE NegInfinity)
    ELSE LET q == Abs(x) \div scale
             r == Abs(x) % scale
             qy == Abs(y) \div scale
             ry == Abs(y) % scale
             m == q * Abs(y) + r * qy + (r * ry) \div scale
             down == IF (r * ry) % scale = 0 THEN m ELSE m + 1
         IN IF Sign(x) = Sign(y)
            THEN (IF m > MaxValue THEN Infinity ELSE m)
            ELSE (IF down > MaxValue THEN NegInfinity ELSE 0 - down)

(* x * y, for x in units of 1/scale *)
MulBy(x, y, scale) ==
    IF x <= MaxFactor /\ x >= 0 - MaxFactor /\ y <= MaxFactor /\ y >= 0 - MaxFactor
    THEN (x * y) \div scale
    ELSE MulSpecial(x, y, scale)

FMul(x, y) == MulBy(x, y, Scale)

(* k * x for an integer literal k > 0 *)
Times(k, x) ==
    LET v == k * x
    IN IF v <= MaxValue /\ v >= MinValue THEN v
       ELSE IF IsFinite(x) THEN (IF x > 0 THEN Infinity ELSE NegInfinity)
       ELSE x

(* x / n for a count n >= 0 *)
Over(x, n) ==
    IF x <= MaxValue /\ x >= MinValue /\ n > 0 THEN x \div n
    ELSE IF n > 0 THEN x
    ELSE IF IsNaN(x) \/ x = 0 THEN NaN
    ELSE IF x > 0 THEN Infinity
    ELSE NegInfinity

(* x / y *)
Div(x, y) ==
    IF IsNaN(x) \/ IsNaN(y) THEN NaN
    ELSE IF ~IsFinite(x) THEN (IF ~IsFinite(y) THEN NaN
                               ELSE IF (x > 0) = (y >= 0) THEN Infinity
                               ELSE NegInfinity)
    ELSE IF ~IsFinite(y) THEN 0
    ELSE IF y = 0 THEN (IF x = 0 THEN NaN ELSE IF x > 0 THEN Infinity ELSE NegInfinity)
    ELSE LET v == (x * Scale) \div y
         IN IF v > MaxValue THEN Infinity
            ELSE IF v < MinValue THEN NegInfinity
            ELSE v

(* x >= y *)
AtLeast(x, y) == ~IsNaN(x) /\ ~IsNaN(y) /\ x >= y

(* Math.max, Math.min *)
Max(x, y) == IF IsNaN(x) \/ IsNaN(y) THEN NaN ELSE IF x >= y THEN x ELSE y
Min(x, y) == IF IsNaN(x) \/ IsNaN(y) THEN NaN ELSE IF x <= y THEN x ELSE y

Rand(seed, k) == (seed * 37 + k * 61 + 13) % Scale

(* the sum a loop accumulates over the terms s[i], s[i + 1], ... onto total *)
RECURSIVE SumFrom(_, _, _)
SumFrom(s, i, total) ==
    IF i > Len(s) THEN total ELSE SumFrom(s, i + 1, Plus(total, s[i]))

SumSeq(s) == SumFrom(s, 1, 0)

Last(s) == s[Len(s)]

----------------------------------------------------------------------------
(* problems.ts: the three problem definitions *)

(* 1 / (1 + Math.exp(-z)), tabulated at whole z and interpolated linearly *)
SigmoidTable == <<0, 1, 2, 5, 12, 27, 50, 73, 88, 95, 98, 99, 100>>

Sigmoid(z) ==
    IF IsNaN(z) THEN NaN
    ELSE IF z <= 0 - 6 * Scale THEN 0
    ELSE IF z >= 6 * Scale THEN Scale
    ELSE LET k == (z + 6 * Scale) \div Scale
             r == (z + 6 * Scale) % Scale
             lo == SigmoidTable[k + 1]
             hi == SigmoidTable[k + 2]
         IN lo + ((hi - lo) * r) \div Scale

(* -Math.log(p) for p = 0.01 .. 0.99 *)
NegLogTable ==
    <<461, 391, 351, 322, 300, 281, 266, 253, 241, 230, 221, 212, 204, 197, 190,
      183, 177, 171, 166, 161, 156, 151, 147, 143, 139, 135, 131, 127, 124, 120,
      117, 114, 111, 108, 105, 102, 99, 97, 94, 92, 89, 87, 84, 82, 80, 78, 76,
      73, 71, 69, 67, 65, 63, 62, 60, 58, 56, 54, 53, 51, 49, 48, 46, 45, 43, 42,
      40, 39, 37, 36, 34, 33, 31, 30, 29, 27, 26, 25, 24, 22, 21, 20, 19, 17, 16,
      15, 14, 13, 12, 11, 9, 8, 7, 6, 5, 4, 3, 2, 1>>

NegLog(p) == IF IsNaN(p) THEN NaN ELSE NegLogTable[p]

(* epsilon of the cross-entropy clamp: the smallest positive fixed-point value *)
epsilon == 1

trueParameters(type) ==
    CASE type = "linear-regression" -> [a |-> 150, b |-> 50]
      [] type = "logistic-regression" -> [a |-> 120, b |-> 20]
      [] type = "polynomial-regression" -> [a |-> 50, b |-> 0 - 30]

(* Array.prototype.sort(() => Math.random() - 0.5): some permutation; here a rotation *)
Shuffle(s, seed) ==
    IF s = <<>> THEN s
    ELSE LET n == Len(s)
             k == Rand(seed, 7) % n
         IN [i \in 1..n |-> s[((i - 1 + k) % n) + 1]]

linearGenerateData(numPoints, trainRatio, noiseLevel, seed) ==
    LET numTrain == (numPoints * trainRatio) \div Scale
        point(i) ==
            LET x == (i * 4 * Scale) \div (numPoints - 1) - 2 * Scale
                     + FMul(Rand(seed, 2 * i) - 50, 20)
                noise == FMul(Rand(seed, 2 * i + 1) - 50, noiseLevel) * 2
                y == FMul(trueParameters("linear-regression").a, x)
                     + trueParameters("linear-regression").b + noise
            IN [isTraining |-> i < numTrain, x |-> x, y |-> y, label |-> NoLabel]
    IN Shuffle([j \in 1..numPoints |-> point(j - 1)], seed)

logisticGenerateData(numPoints, trainRatio, noiseLevel, seed) ==
    LET numClass0 == numPoints \div 2
        numClass1 == numPoints - numClass0
        spread == 40 + FMul(noiseLevel, 50)
        class0(i) ==
            [isTraining |-> i < (numClass0 * trainRatio) \div Scale,
             x |-> (0 - 80) + FMul(Rand(seed, 2 * i) - 50, spread),
             y |-> (0 - 50) + FMul(Rand(seed, 2 * i + 1) - 50, spread),
             label |-> 0]
        class1(i) ==
            [isTraining |-> i < (numClass1 * trainRatio) \div Scale,
             x |-> 80 + FMul(Rand(seed, 2 * (numClass0 + i)) - 50, spread),
             y |-> 50 + FMul(Rand(seed, 2 * (numClass0 + i) + 1) - 50, spread),
             label |-> 1]
    IN Shuffle([j \in 1..numClass0 |-> class0(j - 1)]
               \o [j \in 1..numClass1 |-> class1(j - 1)], seed)

polynomialGenerateData(numPoints, trainRatio, noiseLevel, seed) ==
    LET numTrain == (numPoints * trainRatio) \div Scale
        point(i) ==
            LET x == (i * 4 * Scale) \div (numPoints - 1) - 2 * Scale
                noise == FMul(Rand(seed, i) - 50, noiseLevel) * 2
                y == FMul(FMul(trueParameters("polynomial-regression").a, x), x)
                     + FMul(trueParameters("polynomial-regression").b, x) + noise
            IN [isTraining |-> i < numTrain, x |-> x, y |-> y, label |-> NoLabel]
    IN Shuffle([j \in 1..numPoints |-> point(j - 1)], seed)

generateData(type, numPoints, trainRatio, noiseLevel, seed) ==
    CASE type = "linear-regression" ->
            linearGenerateData(numPoints, trainRatio, noiseLevel, seed)
      [] type = "logistic-regression" ->
            logisticGenerateData(numPoints, trainRatio, noiseLevel, seed)
      [] type = "polynomial-regression" ->
            polynomialGenerateData(numPoints, trainRatio, noiseLevel, seed)

(* the prediction error of one point, per problem *)
linearError(point, params) ==
    Minus(Plus(FMul(params.a, point.x), params.b), point.y)

polynomialError(point, params) ==
    Minus(Plus(FMul(FMul(params.a, point.x), point.x), FMul(params.b, point.x)),
          point.y)

logisticPredictionWithBias(point, params) ==
    Sigmoid(Plus(FMul(params.a, point.x), params.b))

logisticPrediction(point, params) ==
    Sigmoid(Plus(FMul(params.a, point.x), FMul(params.b, point.y)))

(* logistic predict: the y of the decision boundary a*x + b*y = 0 at x *)
logisticPredictUnguarded(x, params) == Div(FMul(Negate(params.a), x), params.b)

logisticPredict(x, params) ==
    IF params.b = 0 THEN 0
    ELSE Div(FMul(Negate(params.a), x), params.b)

linearComputeLossUnguarded(data, params) ==
    LET squared(i) == LET error == linearError(data[i], params)
                      IN FMul(error, error)
    IN Over(SumSeq([i \in 1..Len(data) |-> squared(i)]), Len(data))

linearComputeLoss(data, params) ==
    IF Len(data) = 0 THEN 0
    ELSE LET squared(i) == LET error == linearError(data[i], params)
                           IN FMul(error, error)
         IN Over(SumSeq([i \in 1..Len(data) |-> squared(i)]), Len(data))

linearComputeGradient(data, params) ==
    IF Len(data) = 0 THEN [a |-> 0, b |-> 0]
    ELSE LET error == [i \in 1..Len(data) |-> linearError(data[i], params)]
             gradA(i) == FMul(Times(2, error[i]), data[i].x)
             gradB(i) == Times(2, error[i])
         IN [a |-> Over(SumSeq([i \in 1..Len(data) |-> gradA(i)]), Len(data)),
             b |-> Over(SumSeq([i \in 1..Len(data) |-> gradB(i)]), Len(data))]

logisticComputeLoss(data, params) ==
    IF Len(data) = 0 THEN 0
    ELSE LET term(i) ==
                 LET clampedPred == Max(epsilon, Min(Scale - epsilon,
                                         logisticPrediction(data[i], params)))
                 IN IF data[i].label = 1 THEN NegLog(clampedPred)
                    ELSE NegLog(Minus(Scale, clampedPred))
         IN Over(SumSeq([i \in 1..Len(data) |-> term(i)]), Len(data))

logisticComputeGradient(data, params) ==
    IF Len(data) = 0 THEN [a |-> 0, b |-> 0]
    ELSE LET error == [i \in 1..Len(data) |->
                          Minus(logisticPrediction(data[i], params),
                                IF data[i].label = 1 THEN Scale ELSE 0)]
             gradA(i) == FMul(error[i], data[i].x)
             gradB(i) == FMul(error[i], data[i].y)
         IN [a |-> Over(SumSeq([i \in 1..Len(data) |-> gradA(i)]), Len(data)),
             b |-> Over(SumSeq([i \in 1..Len(data) |-> gradB(i)]), Len(data))]

polynomialComputeLoss(data, params) ==
    IF Len(data) = 0 THEN 0
    ELSE LET squared(i) == LET error == polynomialError(data[i], params)
                           IN FMul(error, error)
         IN Over(SumSeq([i \in 1..Len(data) |-> squared(i)]), Len(data))

polynomialComputeGradient(data, params) ==
    IF Len(data) = 0 THEN [a |-> 0, b |-> 0]
    ELSE LET error == [i \in 1..Len(data) |-> polynomialError(data[i], params)]
             gradA(i) == FMul(FMul(Times(2, error[i]), data[i].x), data[i].x)
             gradB(i) == FMul(Times(2, error[i]), data[i].x)
         IN [a |-> Over(SumSeq([i \in 1..Len(data) |-> gradA(i)]), Len(data)),
             b |-> Over(SumSeq([i \in 1..Len(data) |-> gradB(i)]), Len(data))]

computeLoss(type, data, params) ==
    CASE type = "linear-regression" -> linearComputeLoss(data, params)
      [] type = "logistic-regression" -> logisticComputeLoss(data, params)
      [] type = "polynomial-regression" -> polynomialComputeLoss(data, params)

computeGradient(type, data, params) ==
    CASE type = "linear-regression" -> linearComputeGradient(data, params)
      [] type = "logistic-regression" -> logisticComputeGradient(data, params)
      [] type = "polynomial-regression" -> polynomialComputeGradient(data, params)

(* gradientDescent.ts *)
gradientDescentStep(data, currentParams, learningRate, type) ==
    LET gradient == computeGradient(type, data, currentParams)
    IN [a |-> Minus(currentParams.a, MulBy(learningRate, gradient.a, LrScale)),
        b |-> Minus(currentParams.b, MulBy(learningRate, gradient.b, LrScale))]

----------------------------------------------------------------------------
(* stores.ts *)

(* Math.random() * 2 - 1: the initial and the re-randomised parameters *)
RandomParams == {[a |-> 0 - 50, b |-> 30], [a |-> 80, b |-> 0 - 60]}

initialDatasetState ==
    [numPoints |-> 20, trainRatio |-> 80, noiseLevel |-> 30, data |-> <<>>,
     randomSplit |-> TRUE]

initialTrainingConfig ==
    [isTraining |-> FALSE, learningRate |-> LrScale \div 100, totalSteps |-> 200,
     currentStep |-> 0]

(* datasetStore.regenerateData and datasetStore.initialize compute the same data *)
regeneratedData(state, type, seed) ==
    LET data == generateData(type, state.numPoints, state.trainRatio,
                             state.noiseLevel, seed)
        shuffled == Shuffle(data, seed + 1)
        numTrain == (state.numPoints * state.trainRatio) \div Scale
    IN IF state.randomSplit
       THEN [idx \in 1..Len(shuffled) |->
                [shuffled[idx] EXCEPT !.isTraining = (idx - 1 < numTrain)]]
       ELSE data

(* the data regenerated under the default settings, tabulated once *)
DefaultData ==
    [type \in ProblemTypes, seed \in Seeds |->
        regeneratedData(initialDatasetState, type, seed)]

regenerateDataOfLinear(state, type, seed) ==
    [state EXCEPT !.data = regeneratedData(state, "linear-regression", seed)]

regenerateData(state, type, seed) ==
    [state EXCEPT !.data =
        IF [state EXCEPT !.data = <<>>] = initialDatasetState /\ seed \in Seeds
        THEN DefaultData[type, seed]
        ELSE regeneratedData(state, type, seed)]

IsTrainingPoint(point) == point.isTraining
IsTestPoint(point) == ~point.isTraining

trainingData(data) == SelectSeq(data, IsTrainingPoint)
testData(data) == SelectSeq(data, IsTestPoint)

addPointDropsHistory(history, point) == <<point>>

(* historyStore.addPoint *)
addPoint(history, point) == Append(history, point)

historyResetKeeps == historyStore

(* historyStore.reset *)
historyReset == <<>>

historyPointOfStoredParameters(step, type, data, params) ==
    [step |-> step,
     trainLoss |-> computeLoss(type, trainingData(data), params),
     testLoss |-> computeLoss(type, testData(data), params),
     parameters |-> parametersStore]

(* the history entry recorded for `params` at `step` *)
historyPoint(step, type, data, params) ==
    [step |-> step,
     trainLoss |-> computeLoss(type, trainingData(data), params),
     testLoss |-> computeLoss(type, testData(data), params),
     parameters |-> params]

----------------------------------------------------------------------------
(* Sidebar.svelte *)

clearIntervalNothing(ts, id) == ts

clearInterval(ts, id) == {t \in ts : t.id # id}

FreeTimerIds == (1..MaxTimers) \ {t.id : t \in timers}

(* window.setInterval: a handle no active timer has *)
setInterval == CHOOSE id \in FreeTimerIds : \A other \in FreeTimerIds : id <= other

stoppedTimersKeepsAll == timers

(* stopTraining: the timers left active *)
stoppedTimers ==
    IF trainingInterval # NoTimer THEN clearInterval(timers, trainingInterval)
    ELSE timers

startingStepZero(currentHistory) == 0

(* the step the loop continues from: the last history entry's *)
startingStepOf(currentHistory) ==
    IF Len(currentHistory) > 0 THEN Last(currentHistory).step ELSE 0

runFinishedOneLate(t) == t.stepsCompleted > t.stepsToTrain

(* the loop has done the steps it was started for *)
runFinished(t) == t.stepsCompleted >= t.stepsToTrain

(* the parameters the history held when timer t was started *)
currentParamsAtStart(t) ==
    historyStore[CHOOSE i \in 1..Len(historyStore) :
                    /\ historyStore[i].step = t.startingStep
                    /\ \A j \in 1..(i - 1) : historyStore[j].step # t.startingStep
                ].parameters

(* the parameters a tick of timer t starts from: $parametersStore, read inside
   the callback *)
currentParams(t) == parametersStore

nextStepNumber(t) == t.startingStep + t.stepsCompleted + 1

MinTotalSteps == 10
MaxTotalSteps == 1000

clampTotalSteps(parsed) == Max(MinTotalSteps, Min(MaxTotalSteps, parsed))

historyAfterResetNotReAdded(type, data, parameters) == historyReset

(* the history resetTraining leaves: cleared, then the step-0 entry re-added *)
historyAfterReset(type, data, parameters) ==
    IF Len(data) > 0
    THEN addPoint(historyReset, historyPoint(0, type, data, parameters))
    ELSE historyReset

startTraining ==
    IF isTraining THEN
        /\ lastOp' = [op |-> "start", arg |-> <<>>]
        /\ UNCHANGED <<mounted, selectedProblem, datasetStore, parametersStore,
                       trainingStore, historyStore, isTraining, trainingInterval,
                       startingStepForProgress, timers, dragCount, auxVars>>
    ELSE
        /\ FreeTimerIds # {}
        /\ isTraining' = TRUE
        /\ trainingStore' = [trainingStore EXCEPT !.isTraining = TRUE]
        /\ startingStepForProgress' = startingStepOf(historyStore)
        /\ trainingInterval' = setInterval
        /\ timers' = timers \cup
                {[id |-> setInterval,
                  stepsCompleted |-> 0,
                  stepsToTrain |-> trainingStore.totalSteps,
                  startingStep |-> startingStepOf(historyStore)]}
        /\ lastOp' = [op |-> "start", arg |-> <<>>]
        /\ UNCHANGED <<mounted, selectedProblem, datasetStore, parametersStore,
                       historyStore, dragCount, auxVars>>

stopTrainingLocalOnly ==
    /\ timers' = stoppedTimers
    /\ trainingInterval' = NoTimer
    /\ isTraining' = FALSE
    /\ UNCHANGED <<mounted, selectedProblem, datasetStore, parametersStore,
                   trainingStore, historyStore, startingStepForProgress, dragCount,
                   auxVars>>

stopTraining ==
    /\ timers' = stoppedTimers
    /\ trainingInterval' = NoTimer
    /\ isTraining' = FALSE
    /\ trainingStore' = [trainingStore EXCEPT !.isTraining = FALSE]
    /\ UNCHANGED <<mounted, selectedProblem, datasetStore, parametersStore,
                   historyStore, startingStepForProgress, dragCount, auxVars>>

(* the progress shown on the train button, in percent *)
trainingProgress ==
    IF isTraining /\ Len(historyStore) > 0
    THEN ((trainingStore.currentStep - startingStepForProgress) * 100 * Scale)
             \div trainingStore.totalSteps
    ELSE 0

(* the train button: on:click={isTraining ? stopTraining : startTraining} *)
ClickTrainButton ==
    /\ mounted
    /\ IF isTraining
       THEN stopTraining /\ lastOp' = [op |-> "stop", arg |-> <<>>]
       ELSE startTraining

(* one firing of the interval callback of timer t, explored while the history
   is shorter than cap *)
IntervalCallback(t, cap) ==
    /\ t \in timers
    /\ \/ /\ runFinished(t)
          /\ stopTraining
          /\ lastOp' = [op |-> "expire", arg |-> <<>>]
       \/ /\ ~runFinished(t)
          /\ Len(historyStore) < cap
          /\ LET trainData == trainingData(datasetStore.data)
                 newParams == gradientDescentStep(trainData, currentParams(t),
                                  trainingStore.learningRate, selectedProblem)
             IN /\ parametersStore' = newParams
                /\ trainingStore' =
                       [trainingStore EXCEPT !.currentStep = nextStepNumber(t)]
                /\ historyStore' = addPoint(historyStore,
                       historyPoint(nextStepNumber(t), selectedProblem,
                                    datasetStore.data, newParams))
          /\ timers' = (timers \ {t}) \cup
                 {[t EXCEPT !.stepsCompleted = t.stepsCompleted + 1]}
          /\ lastOp' = [op |-> "tick", arg |-> <<>>]
          /\ UNCHANGED <<mounted, selectedProblem, datasetStore, isTraining,
                         trainingInterval, startingStepForProgress, dragCount, auxVars>>

(* resetTraining with `parameters` the value parametersStore.reset() draws,
   under problem `type` *)
resetTraining(type, parameters) ==
    /\ timers' = stoppedTimers
    /\ trainingInterval' = NoTimer
    /\ isTraining' = FALSE
    /\ parametersStore' = parameters
    /\ trainingStore' = [trainingStore EXCEPT !.currentStep = 0, !.isTraining = FALSE]
    /\ historyStore' = historyAfterReset(type, datasetStore.data, parameters)
    /\ dragCount' = 0
    /\ UNCHANGED <<mounted, startingStepForProgress, auxVars>>

ClickResetButton(parameters) ==
    /\ mounted
    /\ resetTraining(selectedProblem, parameters)
    /\ lastOp' = [op |-> "reset",
                  arg |-> [parameters |-> parameters, wasTraining |-> isTraining]]
    /\ UNCHANGED <<selectedProblem, datasetStore>>

selectProblem(type, parameters, seed) ==
    /\ mounted
    /\ selectedProblem' = type
    /\ resetTraining(type, parameters)
    /\ datasetStore' = regenerateData(datasetStore, type, seed)
    /\ lastOp' = [op |-> "select",
                  arg |-> [type |-> type, parameters |-> parameters,
                           wasTraining |-> isTraining]]

(* the training-steps text field loses focus with `parsed` typed in *)
BlurTrainingSteps(parsed) ==
    /\ mounted
    /\ trainingStore' = [trainingStore EXCEPT !.totalSteps = clampTotalSteps(parsed)]
    /\ lastOp' = [op |-> "steps", arg |-> <<>>]
    /\ UNCHANGED <<mounted, selectedProblem, datasetStore, parametersStore,
                   historyStore, isTraining, trainingInterval,
                   startingStepForProgress, timers, dragCount, auxVars>>

(* what a user types into the training-steps field *)
TypedSteps == {5}

----------------------------------------------------------------------------
(* Sidebar.svelte: the settings controls.  Each is explored while fewer than
   maxChanges settings were changed since the page was loaded *)

(* datasetStore setters *)
setNumPoints(state, numPoints) == [state EXCEPT !.numPoints = numPoints]
setTrainRatio(state, trainRatio) == [state EXCEPT !.trainRatio = trainRatio]
setRandomSplit(state, randomSplit) == [state EXCEPT !.randomSplit = randomSplit]
setNoiseLevel(state, noiseLevel) == [state EXCEPT !.noiseLevel = noiseLevel]

MinNumPoints == 10
MaxNumPoints == 100
NumPointsStep == 5

MinLearningRate == 1
MaxLearningRate == LrScale

TotalStepsStep == 10

(* numPointsDebounce is assigned in the markup but declared nowhere in the
   component: the handler either stops at the reference (the timeout is left as
   it was) or, where the name resolves, clears the old timeout and arms a new one *)
debounceAfterClick == {debounceTimeout, TRUE}

sessionVars == <<mounted, selectedProblem, parametersStore, trainingStore,
                 historyStore, isTraining, trainingInterval,
                 startingStepForProgress, timers, dragCount>>

(* the "-" and "+" buttons of Data Points *)
ClickNumPointsButton(numPoints, maxChanges) ==
    /\ mounted
    /\ configCount < maxChanges
    /\ datasetStore' = setNumPoints(datasetStore, numPoints)
    /\ debounceTimeout' \in debounceAfterClick
    /\ configCount' = configCount + 1
    /\ lastOp' = [op |-> "numPoints", arg |-> numPoints]
    /\ UNCHANGED <<sessionVars, themeStore, resizeTimer, pendingFrames, call>>

ClickNumPointsMinus(maxChanges) ==
    /\ datasetStore.numPoints > MinNumPoints
    /\ ClickNumPointsButton(Max(MinNumPoints, datasetStore.numPoints - NumPointsStep),
                            maxChanges)

ClickNumPointsPlus(maxChanges) ==
    /\ datasetStore.numPoints < MaxNumPoints
    /\ ClickNumPointsButton(Min(MaxNumPoints, datasetStore.numPoints + NumPointsStep),
                            maxChanges)

(* the debounce timeout fires and asks for an animation frame *)
DebounceTimeout ==
    /\ debounceTimeout
    /\ debounceTimeout' = FALSE
    /\ pendingFrames' = pendingFrames + 1
    /\ lastOp' = [op |-> "timeout", arg |-> <<>>]
    /\ UNCHANGED <<sessionVars, datasetStore, themeStore, resizeTimer, configCount, call>>

(* the animation frame regenerates the data *)
AnimationFrame(seed) ==
    /\ pendingFrames > 0
    /\ pendingFrames' = pendingFrames - 1
    /\ datasetStore' = regenerateData(datasetStore, selectedProblem, seed)
    /\ lastOp' = [op |-> "regenerate", arg |-> <<>>]
    /\ UNCHANGED <<sessionVars, themeStore, resizeTimer, debounceTimeout, configCount, call>>

ChangeAndRegenerateWithReset(state, seed, op, maxChanges) ==
    /\ mounted
    /\ configCount < maxChanges
    /\ parametersStore' = CHOOSE parameters \in RandomParams : TRUE
    /\ datasetStore' = regenerateData(state, selectedProblem, seed)
    /\ configCount' = configCount + 1
    /\ lastOp' = [op |-> op, arg |-> <<>>]
    /\ UNCHANGED <<mounted, selectedProblem, trainingStore, historyStore, isTraining,
                   trainingInterval, startingStepForProgress, timers, dragCount,
                   themeStore, resizeTimer, debounceTimeout, pendingFrames, call>>

(* a settings control that updates datasetStore and regenerates at once *)
ChangeAndRegenerate(state, seed, op, maxChanges) ==
    /\ mounted
    /\ configCount < maxChanges
    /\ datasetStore' = regenerateData(state, selectedProblem, seed)
    /\ configCount' = configCount + 1
    /\ lastOp' = [op |-> op, arg |-> <<>>]
    /\ UNCHANGED <<sessionVars, themeStore, resizeTimer, debounceTimeout, pendingFrames, call>>

handleTrainRatioChange(value, seed, maxChanges) ==
    ChangeAndRegenerate(setTrainRatio(datasetStore, value), seed, "trainRatio",
                        maxChanges)

(* the Randomized checkbox: on:change *)
ChangeRandomSplit(seed, maxChanges) ==
    ChangeAndRegenerate(setRandomSplit(datasetStore, ~datasetStore.randomSplit), seed,
                        "randomSplit", maxChanges)

(* the noise slider: on:input *)
InputNoiseLevel(value, seed, maxChanges) ==
    ChangeAndRegenerate(setNoiseLevel(datasetStore, value), seed, "noiseLevel",
                        maxChanges)

(* a settings control that updates trainingStore *)
ChangeTraining(store, op, maxChanges) ==
    /\ mounted
    /\ configCount < maxChanges
    /\ trainingStore' = store
    /\ configCount' = configCount + 1
    /\ lastOp' = [op |-> op, arg |-> <<>>]
    /\ UNCHANGED <<mounted, selectedProblem, datasetStore, parametersStore,
                   historyStore, isTraining, trainingInterval,
                   startingStepForProgress, timers, dragCount, themeStore, resizeTimer,
                   debounceTimeout, pendingFrames, call>>

ClickLearningRateMinus(maxChanges) ==
    /\ trainingStore.learningRate > MinLearningRate
    /\ ChangeTraining([trainingStore EXCEPT !.learningRate =
                          Max(MinLearningRate, trainingStore.learningRate \div 10)],
                      "learningRate", maxChanges)

ClickLearningRatePlus(maxChanges) ==
    /\ trainingStore.learningRate < MaxLearningRate
    /\ ChangeTraining([trainingStore EXCEPT !.learningRate =
                          Min(MaxLearningRate, trainingStore.learningRate * 10)],
                      "learningRate", maxChanges)

ClickTotalStepsMinus(maxChanges) ==
    /\ trainingStore.totalSteps > MinTotalSteps
    /\ ChangeTraining([trainingStore EXCEPT !.totalSteps =
                          Max(MinTotalSteps, trainingStore.totalSteps - TotalStepsStep)],
                      "totalSteps", maxChanges)

ClickTotalStepsPlus(maxChanges) ==
    /\ trainingStore.totalSteps < MaxTotalSteps
    /\ ChangeTraining([trainingStore EXCEPT !.totalSteps =
                          Min(MaxTotalSteps, trainingStore.totalSteps + TotalStepsStep)],
                      "totalSteps", maxChanges)

(* values the train/test slider and the noise slider are moved to *)
SliderRatios == {50}
SliderNoiseLevels == {0}

(* App.svelte: the theme button, themeStore.toggle *)
toggleTheme(maxChanges) ==
    /\ mounted
    /\ configCount < maxChanges
    /\ themeStore' = IF themeStore = "light" THEN "dark" ELSE "light"
    /\ configCount' = configCount + 1
    /\ lastOp' = [op |-> "theme", arg |-> <<>>]
    /\ UNCHANGED <<sessionVars, datasetStore, resizeTimer, debounceTimeout,
                   pendingFrames, call>>

----------------------------------------------------------------------------
(* Sidebar.svelte: the text fields of the steppers.  A text is a sequence of
   characters; on:input keeps the characters the field accepts in the draft, and
   on:blur parses the draft and commits it *)

IsDigit(c) == \E d \in 0..9 : ToString(d) = c

DigitValue(c) == CHOOSE d \in 0..9 : ToString(d) = c

(* value.replace(/[^0-9]/g, '') *)
keepDigits(text) == SelectSeq(text, IsDigit)

IsRateChar(c) == IsDigit(c) \/ c \in {".", "e", "E", "-"}

(* value.replace(/[^0-9.eE\-]/g, '') *)
keepRateChars(text) == SelectSeq(text, IsRateChar)

(* the number of digits of text from position i on *)
RECURSIVE DigitRun(_, _)
DigitRun(text, i) ==
    IF i <= Len(text) /\ IsDigit(text[i]) THEN 1 + DigitRun(text, i + 1) ELSE 0

(* the decimal value of the n digits of text from position i on, after acc *)
RECURSIVE DigitsValue(_, _, _, _)
DigitsValue(text, i, n, acc) ==
    IF n = 0 THEN acc
    ELSE DigitsValue(text, i + 1, n - 1, Min(MaxValue, acc * 10 + DigitValue(text[i])))

RECURSIVE PowerOfTen(_)
PowerOfTen(n) == IF n = 0 THEN 1 ELSE 10 * PowerOfTen(n - 1)

CharAt(text, i) == IF i <= Len(text) THEN text[i] ELSE ""

(* parseInt(draft, 10) of a draft of digits *)
parseInt(draft) ==
    LET n == DigitRun(draft, 1)
    IN IF n = 0 THEN NaN ELSE DigitsValue(draft, 1, n, 0)

(* digits a decimal number is shifted by at most before it is 0 or too large for
   any range of the model *)
MaxShift == 4 + 4

(* parseFloat(draft), in units of 1 / LrScale: the longest prefix of the form
   [-] digits [. digits] [e [-] digits] *)
parseFloat(draft) ==
    LET negative == CharAt(draft, 1) = "-"
        start == IF negative THEN 2 ELSE 1
        whole == DigitRun(draft, start)
        dot == start + whole
        hasDot == CharAt(draft, dot) = "."
        fraction == IF hasDot THEN DigitRun(draft, dot + 1) ELSE 0
        mark == dot + (IF hasDot THEN 1 + fraction ELSE 0)
        hasMark == CharAt(draft, mark) \in {"e", "E"}
        negativeExponent == hasMark /\ CharAt(draft, mark + 1) = "-"
        first == IF negativeExponent THEN mark + 2 ELSE mark + 1
        digits == IF hasMark THEN DigitRun(draft, first) ELSE 0
        magnitude == DigitsValue(draft, first, digits, 0)
        exponent == IF negativeExponent THEN 0 - magnitude ELSE magnitude
        mantissa == DigitsValue(draft, dot + 1, fraction,
                                DigitsValue(draft, start, whole, 0))
        shift == exponent - fraction + 4
        value == IF mantissa = 0 THEN 0
                 ELSE IF shift > MaxShift THEN Infinity
                 ELSE IF shift < 0 - MaxShift THEN 0
                 ELSE IF shift >= 0 THEN MulBy(mantissa, PowerOfTen(shift), 1)
                 ELSE mantissa \div PowerOfTen(0 - shift)
    IN IF whole + fraction = 0 THEN NaN
       ELSE IF negative THEN Negate(value) ELSE value

clampNumPoints(parsed) == Max(MinNumPoints, Min(MaxNumPoints, parsed))

clampLearningRateFromAbove(parsed) == Min(MaxLearningRate, parsed)

clampLearningRate(parsed) == Max(MinLearningRate, Min(MaxLearningRate, parsed))

(* the Data Points field: on:input with `text` in the field, then on:blur *)
BlurNumPoints(text, maxChanges) ==
    /\ mounted
    /\ configCount < maxChanges
    /\ LET parsed == parseInt(keepDigits(text))
       IN /\ IF IsNaN(parsed)
             THEN UNCHANGED <<datasetStore, debounceTimeout>>
             ELSE /\ datasetStore' = setNumPoints(datasetStore, clampNumPoints(parsed))
                  /\ debounceTimeout' \in debounceAfterClick
          /\ lastOp' = [op |-> "blurNumPoints", arg |-> parsed]
    /\ configCount' = configCount + 1
    /\ UNCHANGED <<sessionVars, themeStore, resizeTimer, pendingFrames, call>>

(* a text field of trainingStore loses focus with `parsed` in its draft *)
BlurTraining(parsed, store, op, maxChanges) ==
    /\ mounted
    /\ configCount < maxChanges
    /\ trainingStore' = IF IsNaN(parsed) THEN trainingStore ELSE store
    /\ configCount' = configCount + 1
    /\ lastOp' = [op |-> op, arg |-> parsed]
    /\ UNCHANGED <<mounted, selectedProblem, datasetStore, parametersStore,
                   historyStore, isTraining, trainingInterval,
                   startingStepForProgress, timers, dragCount, themeStore,
                   resizeTimer, debounceTimeout, pendingFrames, call>>

(* the Learning Rate field *)
BlurLearningRate(text, maxChanges) ==
    LET parsed == parseFloat(keepRateChars(text))
    IN BlurTraining(parsed,
                    [trainingStore EXCEPT !.learningRate = clampLearningRate(parsed)],
                    "blurLearningRate", maxChanges)

(* the Training Steps field *)
BlurTotalSteps(text, maxChanges) ==
    LET parsed == parseInt(keepDigits(text))
    IN BlurTraining(parsed,
                    [trainingStore EXCEPT !.totalSteps = clampTotalSteps(parsed)],
                    "blurTotalSteps", maxChanges)

(* texts typed into the fields *)
TypedCounts == {<<>>, <<"7">>, <<"4", "2">>, <<"-", "3", "5", "0", "0">>, <<"a", "b">>}

TypedRates == {<<>>, <<"0", ".", "5">>, <<"5">>, <<"-", "1">>, <<"2", "e", "-", "3">>,
               <<"1", "e", "-", "9">>, <<".", "e">>, <<"1", "e", "9", "9">>}

----------------------------------------------------------------------------
(* LossLandscape.svelte: dragging the current-position marker *)

parameterRangeMin == 0 - 5 * Scale
parameterRangeMax == 5 * Scale

clamp(v) == Max(parameterRangeMin, Min(parameterRangeMax, v))

nextStepIsLength(history) == Len(history)

(* the step of a drag's history entry *)
nextStep(history) == IF Len(history) > 0 THEN Last(history).step + 1 ELSE 0

(* positions the pointer is dragged to, as xScale.invert / yScale.invert give them *)
DragPositions == {[a |-> 700, b |-> 0 - 250], [a |-> 0 - 100, b |-> 150]}

Drag(pos, cap, maxDrags) ==
    /\ mounted
    /\ Len(historyStore) < cap
    /\ dragCount < maxDrags
    /\ LET clamped == [a |-> clamp(pos.a), b |-> clamp(pos.b)]
       IN /\ parametersStore' = clamped
          /\ historyStore' = addPoint(historyStore,
                 historyPoint(nextStep(historyStore), selectedProblem,
                              datasetStore.data, clamped))
    /\ dragCount' = dragCount + 1
    /\ lastOp' = [op |-> "drag", arg |-> pos]
    /\ UNCHANGED <<mounted, selectedProblem, datasetStore, trainingStore, isTraining,
                   trainingInterval, startingStepForProgress, timers, auxVars>>

----------------------------------------------------------------------------
(* LossLandscape.svelte: redrawing the gradient field.  drawGradientField clears the
   picture and draws it again; its drawLossHeatmap computes the loss of every cell
   of the heatmap from the training points *)

(* the ResizeObserver callback stores the new size and re-arms the 100 ms timeout *)
ResizeObserverCallback(maxChanges) ==
    /\ mounted
    /\ configCount < maxChanges
    /\ resizeTimer' = TRUE
    /\ configCount' = configCount + 1
    /\ lastOp' = [op |-> "resize", arg |-> <<>>]
    /\ UNCHANGED <<sessionVars, datasetStore, themeStore, debounceTimeout,
                   pendingFrames, call>>

(* the timeout fires and calls drawGradientField *)
ResizeTimeout ==
    /\ resizeTimer
    /\ resizeTimer' = FALSE
    /\ lastOp' = [op |-> "resized", arg |-> <<>>]
    /\ UNCHANGED <<sessionVars, datasetStore, themeStore, debounceTimeout,
                   pendingFrames, configCount, call>>

(* the step calls drawGradientField: the statement on data and problemConfig ran
   (datasetStore was set or the selected problem changed), the statement on theme
   ran, or the resize timeout fired.  parameters and history are read by neither
   statement; the statement on history calls updateTrail only *)
drawGradientField ==
    \/ /\ datasetStore' # datasetStore \/ selectedProblem' # selectedProblem
       /\ Len(datasetStore'.data) > 0
    \/ themeStore' # themeStore
    \/ resizeTimer /\ ~resizeTimer'

(* the step computes the losses of the heatmap *)
drawLossHeatmap ==
    /\ drawGradientField
    /\ \E i \in 1..Len(datasetStore'.data) : datasetStore'.data[i].isTraining

----------------------------------------------------------------------------
(* LossHistory.svelte: the chart is redrawn when the history or the theme changed *)

windowSize == 500

windowedHistory(history) ==
    LET maxStep == CHOOSE m \in {history[i].step : i \in 1..Len(history)} :
                       \A i \in 1..Len(history) : history[i].step <= m
        minStep == Max(0, maxStep - windowSize)
        InWindow(d) == d.step >= minStep
    IN SelectSeq(history, InWindow)

drawChart(maxChanges) ==
    /\ mounted
    /\ configCount < maxChanges
    /\ configCount' = configCount + 1
    /\ lastOp.op \in {"mount", "tick", "drag", "reset", "select", "theme"}
    /\ call' = [fn |-> "drawChart",
                result |-> IF Len(historyStore) = 0 THEN <<>>
                           ELSE windowedHistory(historyStore)]
    /\ lastOp' = [op |-> "draw", arg |-> <<>>]
    /\ UNCHANGED <<mounted, selectedProblem, datasetStore, parametersStore,
                   trainingStore, historyStore, isTraining, trainingInterval,
                   startingStepForProgress, timers, dragCount, themeStore, resizeTimer,
                   debounceTimeout, pendingFrames>>

----------------------------------------------------------------------------
(* App.svelte *)

onMount(seed) ==
    /\ ~mounted
    /\ mounted' = TRUE
    /\ datasetStore' = regenerateData(datasetStore, selectedProblem, seed)
    /\ historyStore' =
           IF Len(datasetStore'.data) > 0
           THEN addPoint(historyStore,
                    historyPoint(0, selectedProblem, datasetStore'.data, parametersStore))
           ELSE historyStore
    /\ lastOp' = [op |-> "mount", arg |-> <<>>]
    /\ UNCHANGED <<selectedProblem, parametersStore, trainingStore, isTraining,
                   trainingInterval, startingStepForProgress, timers, dragCount, auxVars>>

----------------------------------------------------------------------------
(* The training session *)

Init ==
    /\ mounted = FALSE
    /\ selectedProblem = "linear-regression"
    /\ datasetStore = initialDatasetState
    /\ parametersStore \in RandomParams
    /\ trainingStore = initialTrainingConfig
    /\ historyStore = <<>>
    /\ isTraining = FALSE
    /\ trainingInterval = NoTimer
    /\ startingStepForProgress = 0
    /\ timers = {}
    /\ dragCount = 0
    /\ lastOp = [op |-> "init", arg |-> <<>>]
    /\ themeStore = "light"
    /\ resizeTimer = FALSE
    /\ debounceTimeout = FALSE
    /\ pendingFrames = 0
    /\ configCount = 0
    /\ call = [fn |-> "none"]

Next ==
    \/ \E seed \in Seeds : onMount(seed)
    \/ ClickTrainButton
    \/ \E t \in timers : IntervalCallback(t, MaxHist)
    \/ \E parameters \in RandomParams : ClickResetButton(parameters)
    \/ \E type \in ProblemTypes, parameters \in RandomParams, seed \in Seeds :
           selectProblem(type, parameters, seed)
    \/ \E pos \in DragPositions : Drag(pos, MaxHist, MaxDrags)

Spec == Init /\ [][Next]_vars

(* Whole training runs: the number of steps is typed in, runs are started, paused
   and followed to their end *)
NextRun ==
    \/ \E seed \in Seeds : onMount(seed)
    \/ \E parsed \in TypedSteps : BlurTrainingSteps(parsed)
    \/ ClickTrainButton
    \/ \E t \in timers : IntervalCallback(t, RunMaxHist)
    \/ \E pos \in DragPositions : Drag(pos, RunMaxHist, MaxRunDrags)

SpecRun == Init /\ [][NextRun]_vars

(* The life of the training loop: started, paused, reset, stopped by a problem
   switch or followed to its end *)
NextLoop ==
    \/ \E seed \in Seeds : onMount(seed)
    \/ \E parsed \in TypedSteps : BlurTrainingSteps(parsed)
    \/ ClickTrainButton
    \/ \E t \in timers : IntervalCallback(t, RunMaxHist)
    \/ \E parameters \in RandomParams : ClickResetButton(parameters)
    \/ \E type \in ProblemTypes, parameters \in RandomParams, seed \in Seeds :
           selectProblem(type, parameters, seed)

SpecLoop == Init /\ [][NextLoop]_vars

(* The settings controls next to a training session *)
ConfigDragPositions == {[a |-> 700, b |-> 0 - 250]}

NextConfig ==
    \/ \E seed \in Seeds : onMount(seed)
    \/ ClickNumPointsMinus(MaxChanges)
    \/ ClickNumPointsPlus(MaxChanges)
    \/ DebounceTimeout
    \/ \E seed \in Seeds : AnimationFrame(seed)
    \/ \E value \in SliderRatios, seed \in Seeds :
           handleTrainRatioChange(value, seed, MaxChanges)
    \/ \E seed \in Seeds : ChangeRandomSplit(seed, MaxChanges)
    \/ \E value \in SliderNoiseLevels, seed \in Seeds :
           InputNoiseLevel(value, seed, MaxChanges)
    \/ ClickLearningRateMinus(MaxChanges)
    \/ ClickLearningRatePlus(MaxChanges)
    \/ ClickTotalStepsMinus(MaxChanges)
    \/ ClickTotalStepsPlus(MaxChanges)
    \/ toggleTheme(MaxChanges)
    \/ drawChart(MaxChanges)
    \/ ClickTrainButton
    \/ \E t \in timers : IntervalCallback(t, ConfigMaxHist)
    \/ \E parameters \in RandomParams : ClickResetButton(parameters)
    \/ \E pos \in ConfigDragPositions : Drag(pos, ConfigMaxHist, MaxRunDrags)

SpecConfig == Init /\ [][NextConfig]_vars

(* The steppers of the sidebar: buttons and text fields *)
NextSteppers ==
    \/ \E seed \in Seeds : onMount(seed)
    \/ ClickNumPointsMinus(MaxEdits)
    \/ ClickNumPointsPlus(MaxEdits)
    \/ \E text \in TypedCounts : BlurNumPoints(text, MaxEdits)
    \/ DebounceTimeout
    \/ \E seed \in Seeds : AnimationFrame(seed)
    \/ ClickLearningRateMinus(MaxEdits)
    \/ ClickLearningRatePlus(MaxEdits)
    \/ \E text \in TypedRates : BlurLearningRate(text, MaxEdits)
    \/ ClickTotalStepsMinus(MaxEdits)
    \/ ClickTotalStepsPlus(MaxEdits)
    \/ \E text \in TypedCounts : BlurTotalSteps(text, MaxEdits)

SpecSteppers == Init /\ [][NextSteppers]_vars

(* The redraws of the gradient field next to a training session *)
NextLandscape ==
    \/ \E seed \in Seeds : onMount(seed)
    \/ toggleTheme(MaxChanges)
    \/ ResizeObserverCallback(MaxChanges)
    \/ ResizeTimeout
    \/ \E value \in SliderRatios, seed \in Seeds :
           handleTrainRatioChange(value, seed, MaxChanges)
    \/ ClickTrainButton
    \/ \E t \in timers : IntervalCallback(t, ConfigMaxHist)
    \/ \E type \in ProblemTypes, parameters \in RandomParams, seed \in Seeds :
           selectProblem(type, parameters, seed)
    \/ \E pos \in ConfigDragPositions : Drag(pos, ConfigMaxHist, MaxRunDrags)

SpecLandscape == Init /\ [][NextLandscape]_vars

----------------------------------------------------------------------------
(* gradientDescent.ts: computeLossLandscape *)

computeLossLandscape(data, type, gridSize, paramRange) ==
    LET step == Over(Minus(paramRange.max, paramRange.min), gridSize - 1)
        point(i, j) ==
            LET a == Plus(paramRange.min, MulBy(i, step, 1))
                b == Plus(paramRange.min, MulBy(j, step, 1))
                params == [a |-> a, b |-> b]
                gradient == computeGradient(type, data, params)
            IN [a |-> a, b |-> b, loss |-> computeLoss(type, data, params),
                gradientA |-> gradient.a, gradientB |-> gradient.b]
    IN [i \in 1..gridSize |-> [j \in 1..gridSize |-> point(i - 1, j - 1)]]

----------------------------------------------------------------------------
(* types.ts: performGradientDescentStep.  `dataset`, `params`, `training` and
   `config` hold what subscribe returned, the unsubscribe functions; calling them
   with a callback assigns nothing, so currentDataset is still undefined when its
   data is read and the TypeError ends the helper before any store is updated *)

performGradientDescentStep ==
    /\ lastOp' = [op |-> "perform", arg |-> [thrown |-> "TypeError"]]
    /\ UNCHANGED <<mounted, selectedProblem, datasetStore, parametersStore,
                   trainingStore, historyStore, isTraining, trainingInterval,
                   startingStepForProgress, timers, dragCount, auxVars>>

----------------------------------------------------------------------------
(* Calls of the library functions.  A call is a function of its arguments alone
   and leaves the stores as they are, so one call per behaviour shows them all *)

Call(record) ==
    /\ call.fn = "none"
    /\ call' = record
    /\ lastOp' = [op |-> "call", arg |-> <<>>]
    /\ UNCHANGED <<mounted, selectedProblem, datasetStore, parametersStore,
                   trainingStore, historyStore, isTraining, trainingInterval,
                   startingStepForProgress, timers, dragCount, themeStore, resizeTimer,
                   debounceTimeout, pendingFrames, configCount>>

CallGenerateData(type, numPoints, trainRatio, noiseLevel, seed) ==
    Call([type |-> type, numPoints |-> numPoints, trainRatio |-> trainRatio,
          noiseLevel |-> noiseLevel, fn |-> "generateData",
          result |-> generateData(type, numPoints, trainRatio, noiseLevel, seed)])

CallComputeLoss(type, data, params) ==
    Call([type |-> type, params |-> params, data |-> data, fn |-> "computeLoss",
          result |-> computeLoss(type, data, params)])

CallComputeGradient(type, data, params) ==
    Call([type |-> type, params |-> params, data |-> data, fn |-> "computeGradient",
          result |-> computeGradient(type, data, params)])

(* the arguments are read and a fresh object is returned: they are as before *)
CallGradientDescentStep(type, data, params, learningRate) ==
    Call([type |-> type, params |-> params, data |-> data,
          learningRate |-> learningRate, fn |-> "gradientDescentStep",
          result |-> gradientDescentStep(data, params, learningRate, type),
          dataAfter |-> data, paramsAfter |-> params])

CallComputeLossLandscape(type, data, gridSize, paramRange) ==
    Call([type |-> type, data |-> data, fn |-> "computeLossLandscape",
          result |-> computeLossLandscape(data, type, gridSize, paramRange),
          gridSize |-> gridSize, paramRange |-> paramRange])

(* DataVisualization.svelte: the decision boundary of drawModelPrediction, as
   the points of the line it draws; no points when it draws no line *)
boundaryPoints == 10 * 10

drawModelPrediction(xDomain, parameters) ==
    IF parameters.b # 0
    THEN [k \in 1..(boundaryPoints + 1) |->
             LET x == Plus(xDomain.min,
                           MulBy(k - 1, Minus(xDomain.max, xDomain.min), boundaryPoints))
             IN [x |-> x, y |-> Div(FMul(Negate(parameters.a), x), parameters.b)]]
    ELSE <<>>

CallPredict(x, params) ==
    Call([x |-> x, params |-> params, fn |-> "predict",
          result |-> logisticPredict(x, params)])

CallDrawModelPrediction(xDomain, params) ==
    Call([params |-> params, fn |-> "drawModelPrediction",
          result |-> drawModelPrediction(xDomain, params), xDomain |-> xDomain])

CallRegenerateData(state, type, seed) ==
    Call([type |-> type, numPoints |-> state.numPoints, trainRatio |-> state.trainRatio,
          randomSplit |-> state.randomSplit, fn |-> "regenerateData",
          result |-> regenerateData(state, type, seed).data])

(* the arguments explored *)
FnNumPoints == {10, 15, 20}
FnTrainRatios == {50, 80}
FnNoiseLevels == {0, 30}
FnValues == {0, 150, 0 - 300, MaxValue, MinValue, Infinity, NegInfinity, NaN}
FnParams == {[a |-> a, b |-> b] : a \in FnValues, b \in FnValues}
FnLearningRates == {MinLearningRate, LrScale \div 100, MaxLearningRate}

PointAt(x, y, label) == [isTraining |-> TRUE, x |-> x, y |-> y, label |-> label]

(* no data; one point; both classes; a single class *)
FnData ==
    {<<>>,
     <<PointAt(100, 200, 1)>>,
     <<PointAt(0 - 80, 0 - 50, 0), PointAt(80, 50, 1), PointAt(200, 350, 1)>>,
     <<PointAt(200, 0, 0), PointAt(0 - 150, 320, 0)>>}

(* the default range; 48 is a gridSize at which the quotient
   (max - min) / (gridSize - 1) is rounded *)
GridSizes == {2, 3, 48}
ParamRanges == {[max |-> 3 * Scale, min |-> 0 - 3 * Scale]}
GridData == {<<>>, <<PointAt(100, 200, 1), PointAt(0 - 80, 0 - 50, 0)>>}

(* settings regenerateData is called under: the ends and the middle of the
   ranges of the Data Points stepper and the train/test slider, both split modes *)
FnDatasetStates ==
    {[numPoints |-> numPoints, trainRatio |-> trainRatio, noiseLevel |-> 30,
      data |-> <<>>, randomSplit |-> randomSplit] :
        numPoints \in {MinNumPoints, 15, 20, MaxNumPoints},
        trainRatio \in {10, 50, 90}, randomSplit \in BOOLEAN}

(* abscissas predict is called with, and the x domain of the data plot *)
FnXs == {0, 100, 0 - 250, MaxValue, Infinity, NaN}
XDomains == {[max |-> 3 * Scale, min |-> 0 - 3 * Scale]}

NextFn ==
    \/ \E seed \in Seeds : onMount(seed)
    \/ performGradientDescentStep
    \/ \E type \in ProblemTypes, numPoints \in FnNumPoints,
          trainRatio \in FnTrainRatios, noiseLevel \in FnNoiseLevels, seed \in Seeds :
           CallGenerateData(type, numPoints, trainRatio, noiseLevel, seed)
    \/ \E type \in ProblemTypes, data \in FnData, params \in FnParams :
           CallComputeLoss(type, data, params)
    \/ \E type \in ProblemTypes, data \in FnData, params \in FnParams :
           CallComputeGradient(type, data, params)
    \/ \E type \in ProblemTypes, data \in FnData, params \in FnParams,
          learningRate \in FnLearningRates :
           CallGradientDescentStep(type, data, params, learningRate)
    \/ \E type \in ProblemTypes, data \in GridData, gridSize \in GridSizes,
          paramRange \in ParamRanges :
           CallComputeLossLandscape(type, data, gridSize, paramRange)
    \/ \E x \in FnXs, params \in FnParams : CallPredict(x, params)
    \/ \E xDomain \in XDomains, params \in FnParams :
           CallDrawModelPrediction(xDomain, params)
    \/ \E state \in FnDatasetStates, type \in ProblemTypes, seed \in Seeds :
           CallRegenerateData(state, type, seed)

SpecFn == Init /\ [][NextFn]_vars

----------------------------------------------------------------------------
(* Properties of the training session *)

ClampedToRange(v) ==
    IF v < 0 - 5 * Scale THEN 0 - 5 * Scale ELSE IF v > 5 * Scale THEN 5 * Scale ELSE v

ClampedPosition(pos) == [a |-> ClampedToRange(pos.a), b |-> ClampedToRange(pos.b)]

IsCallback(op) == op \in {"tick", "expire"}

(* C1: in every reachable history the step of each entry is greater than or
   equal to the step of the entry before it *)
C1_StepsNonDecreasing ==
    \A i \in 1..(Len(historyStore) - 1) :
        historyStore[i + 1].step >= historyStore[i].step

(* C2: a run performs exactly the totalSteps steps configured when Train was
   pressed: every tick of it appends one history entry and advances currentStep
   by one, and the run ends once that many ticks were made *)
C2_RunPerformsTotalSteps ==
    [][/\ lastOp'.op = "tick" =>
            /\ Len(historyStore') = Len(historyStore) + 1
            /\ trainingStore'.currentStep = trainingStore.currentStep + 1
       /\ lastOp'.op = "expire" =>
            \E t \in timers : t.stepsCompleted = t.stepsToTrain
       /\ \A t \in timers' : t.stepsCompleted <= t.stepsToTrain]_vars

(* C3: the tick that follows a drag made while training starts from the dragged
   position p and writes p - learningRate * gradient(p) *)
C3_TickStartsFromDraggedPosition ==
    [][(lastOp.op = "drag" /\ isTraining /\ lastOp'.op = "tick") =>
            parametersStore' =
                gradientDescentStep(trainingData(datasetStore.data),
                                    ClampedPosition(lastOp.arg),
                                    trainingStore.learningRate, selectedProblem)]_vars

C3_Witness ==
    /\ lastOp.op = "tick"
    /\ Len(historyStore) >= 3
    /\ LET n == Len(historyStore)
           after(q) == gradientDescentStep(trainingData(datasetStore.data), q,
                                           trainingStore.learningRate, selectedProblem)
       IN /\ \E pos \in DragPositions :
                 historyStore[n - 1].parameters = ClampedPosition(pos)
          /\ historyStore[n].step <= historyStore[n - 1].step
          /\ parametersStore = after(historyStore[n - 1].parameters)
          /\ parametersStore # after(historyStore[n - 2].parameters)

(* C4: no two entries of one history carry the same step *)
C4_NoEqualSteps ==
    \A i, j \in 1..Len(historyStore) :
        i # j => historyStore[i].step # historyStore[j].step

(* C5: every drag event, Idle or Training, appends exactly one history entry,
   whose step is the previously last step plus one and whose parameters are the
   clamped dragged position *)
C5_DragAppendsNextStep ==
    [][lastOp'.op = "drag" =>
            /\ Len(historyStore) >= 1
            /\ historyStore' = Append(historyStore, Last(historyStore'))
            /\ Last(historyStore').step = Last(historyStore).step + 1
            /\ Last(historyStore').parameters = ClampedPosition(lastOp'.arg)
            /\ parametersStore' = ClampedPosition(lastOp'.arg)]_vars

C5_Witness ==
    /\ lastOp.op = "drag"
    /\ isTraining
    /\ lastOp.arg.a > 5 * Scale
    /\ parametersStore.a = 5 * Scale
    /\ Len(historyStore) >= 3

(* C6: while no run is in progress no timer callback fires, stopping leaves
   parameters, history and currentStep as they are, and a tick applies its
   parameter update, its currentStep advance and its history entry together *)
C6_StopIsEffectiveAndTicksAreWhole ==
    [][/\ ~isTraining => ~IsCallback(lastOp'.op)
       /\ lastOp'.op \in {"stop", "expire"} =>
            /\ parametersStore' = parametersStore
            /\ historyStore' = historyStore
            /\ trainingStore'.currentStep = trainingStore.currentStep
       /\ lastOp'.op = "tick" =>
            /\ Len(historyStore') = Len(historyStore) + 1
            /\ Last(historyStore').parameters = parametersStore'
            /\ Last(historyStore').step = trainingStore'.currentStep]_vars

C6_Witness ==
    /\ lastOp.op = "stop"
    /\ ~isTraining
    /\ timers = {}
    /\ trainingStore.currentStep >= 2
    /\ Last(historyStore).step = trainingStore.currentStep

(* C7: at most one interval timer exists at any time, and it is the one the
   sidebar holds the handle of *)
C7_AtMostOneTimer ==
    /\ Cardinality(timers) <= 1
    /\ \A t \in timers : isTraining /\ trainingInterval = t.id

C7_Witness ==
    /\ lastOp.op = "start"
    /\ Cardinality(timers) = 1
    /\ Len(historyStore) >= 3
    /\ \E t \in timers : t.startingStep >= 1

(* C8, as claimed: once the totalSteps-th tick of a run has completed the
   session is Idle and the timer is cleared *)
C8_IdleOnceLastTickCompleted ==
    \A t \in timers : t.stepsCompleted < t.stepsToTrain

(* C8, amended: the timer callback that follows the totalSteps-th tick makes no
   step, clears the timer and leaves the session Idle *)
C8_IdleAtCallbackAfterLastTick ==
    [][/\ \A t \in timers :
            (t.stepsCompleted >= t.stepsToTrain /\ IsCallback(lastOp'.op)) =>
                /\ lastOp'.op = "expire"
                /\ ~isTraining'
                /\ ~trainingStore'.isTraining
                /\ trainingInterval' = NoTimer
                /\ timers' = {}
                /\ parametersStore' = parametersStore
                /\ historyStore' = historyStore
       /\ lastOp'.op = "expire" =>
            \E t \in timers : t.stepsCompleted = t.stepsToTrain]_vars

C8_Witness ==
    /\ lastOp.op = "expire"
    /\ ~isTraining
    /\ timers = {}
    /\ Len(historyStore) >= trainingStore.totalSteps + 1

(* C9: after resetTraining, from Idle or Training, the history is the single
   step-0 entry holding the re-randomised parameters, currentStep is 0 and the
   session is Idle *)
C9_ResetLeavesSingleStepZeroEntry ==
    lastOp.op \in {"reset", "select"} =>
        /\ Len(historyStore) = 1
        /\ historyStore[1].step = 0
        /\ historyStore[1].parameters = lastOp.arg.parameters
        /\ parametersStore = lastOp.arg.parameters
        /\ trainingStore.currentStep = 0
        /\ ~trainingStore.isTraining
        /\ ~isTraining
        /\ timers = {}

C9_Witness ==
    /\ lastOp.op = "reset"
    /\ lastOp.arg.wasTraining
    /\ Len(historyStore) = 1
    /\ startingStepForProgress >= 1

SettingsOps ==
    {"numPoints", "timeout", "regenerate", "trainRatio", "randomSplit", "noiseLevel",
     "learningRate", "totalSteps", "theme", "draw"}

(* C11: the history is append-only: a tick or a drag keeps every entry in place
   and adds one at the end, changing a setting, regenerating the data or drawing
   the chart window leaves it as it is, and only a reset removes entries *)
C11_HistoryAppendOnly ==
    [][/\ lastOp'.op \in {"tick", "drag"} =>
            /\ Len(historyStore') = Len(historyStore) + 1
            /\ SubSeq(historyStore', 1, Len(historyStore)) = historyStore
       /\ lastOp'.op \in SettingsOps => historyStore' = historyStore
       /\ (\E i \in 1..Len(historyStore) :
               i > Len(historyStore') \/ historyStore'[i] # historyStore[i])
            => lastOp'.op \in {"reset", "select"}]_vars

C11_Witness ==
    /\ lastOp.op \in {"regenerate", "trainRatio", "randomSplit", "noiseLevel"}
    /\ Len(historyStore) >= 2
    /\ historyStore[1].step = 0
    /\ datasetStore # initialDatasetState

(* C12: the parameters change only through a tick, a drag or a reset; changing a
   setting, regenerating the data and toggling the theme leave them unchanged *)
C12_ParametersChangeOnlyByTickDragReset ==
    [][/\ parametersStore' # parametersStore =>
            lastOp'.op \in {"tick", "drag", "reset", "select"}
       /\ lastOp'.op \in SettingsOps => parametersStore' = parametersStore]_vars

C12_Witness ==
    /\ lastOp.op \in SettingsOps \ {"draw", "timeout"}
    /\ isTraining
    /\ Len(historyStore) >= 2
    /\ parametersStore = Last(historyStore).parameters
    /\ parametersStore # historyStore[1].parameters

(* C13: selecting a problem, from any state, stops a running loop, leaves a
   single step-0 history entry, currentStep 0 and re-randomised parameters, and
   replaces the dataset with one generated by the selected problem *)
C13_SelectProblemResetsAndRegenerates ==
    lastOp.op = "select" =>
        /\ selectedProblem = lastOp.arg.type
        /\ timers = {}
        /\ ~isTraining
        /\ ~trainingStore.isTraining
        /\ Len(historyStore) = 1
        /\ historyStore[1].step = 0
        /\ trainingStore.currentStep = 0
        /\ parametersStore = lastOp.arg.parameters
        /\ Len(datasetStore.data) = datasetStore.numPoints
        /\ \E seed \in Seeds :
               datasetStore.data =
                   regeneratedData(datasetStore, lastOp.arg.type, seed)

C13_Witness ==
    /\ lastOp.op = "select"
    /\ lastOp.arg.wasTraining
    /\ lastOp.arg.type = "logistic-regression"
    /\ \A i \in 1..Len(datasetStore.data) : datasetStore.data[i].label \in {0, 1}
    /\ Len(datasetStore.data) = 20

(* C14: a pause leaves parameters, history and currentStep as the last tick left
   them and no tick fires while paused; pressing Train again keeps them, takes the
   last history entry's step as its starting step, and the tick that follows
   starts from the retained parameters and carries the next step *)
C14_PauseRetainsAndResumeContinues ==
    [][/\ lastOp'.op = "stop" =>
            /\ timers' = {}
            /\ parametersStore' = parametersStore
            /\ historyStore' = historyStore
            /\ trainingStore'.currentStep = trainingStore.currentStep
       /\ (lastOp.op = "stop" /\ lastOp'.op # "start") => ~IsCallback(lastOp'.op)
       /\ lastOp'.op = "start" =>
            /\ parametersStore' = parametersStore
            /\ historyStore' = historyStore
            /\ \A t \in timers' : t.startingStep = Last(historyStore).step
       /\ (lastOp.op = "start" /\ lastOp'.op = "tick") =>
            /\ parametersStore' =
                   gradientDescentStep(trainingData(datasetStore.data), parametersStore,
                                       trainingStore.learningRate, selectedProblem)
            /\ Last(historyStore').step = Last(historyStore).step + 1]_vars

C14_Witness ==
    /\ lastOp.op = "tick"
    /\ dragCount = 0
    /\ startingStepForProgress >= 1
    /\ Last(historyStore).step = startingStepForProgress + 1
    /\ Len(historyStore) >= 3

----------------------------------------------------------------------------
(* Properties of the library functions *)

(* C15: gradientDescentStep returns exactly params - learningRate * gradient and
   leaves its data and params arguments as they were; and
   performGradientDescentStep writes that same step, taken on the training
   subset with the stored learning rate, to parametersStore *)
C15_StepAndLegacyHelper ==
    [][/\ (call.fn = "none" /\ call'.fn = "gradientDescentStep") =>
            LET g == computeGradient(call'.type, call'.data, call'.params)
            IN /\ call'.result =
                      [a |-> Minus(call'.params.a,
                                   MulBy(call'.learningRate, g.a, LrScale)),
                       b |-> Minus(call'.params.b,
                                   MulBy(call'.learningRate, g.b, LrScale))]
               /\ call'.dataAfter = call'.data
               /\ call'.paramsAfter = call'.params
       /\ lastOp'.op = "perform" =>
            parametersStore' =
                gradientDescentStep(trainingData(datasetStore.data), parametersStore,
                                    trainingStore.learningRate, selectedProblem)]_vars

TrainingCount(data) == Cardinality({i \in 1..Len(data) : data[i].isTraining})

(* C16: generateData(n, r, noise) returns n points of which floor(n * r) are
   training points, for each problem; and after a regeneration with the random
   split the store holds floor(numPoints * trainRatio) training points *)
C16_TrainingPointsAreFloorOfRatio ==
    /\ call.fn = "generateData" =>
          /\ Len(call.result) = call.numPoints
          /\ TrainingCount(call.result) = (call.numPoints * call.trainRatio) \div Scale
    /\ (mounted /\ datasetStore.randomSplit) =>
          TrainingCount(datasetStore.data) =
              (datasetStore.numPoints * datasetStore.trainRatio) \div Scale

(* C17: on an empty data array computeLoss returns 0 and computeGradient returns
   {a: 0, b: 0}, for every problem and every parameter value: the quotient by
   the data length, which would be NaN, is not taken *)
C17_EmptyDataIsNeutral ==
    /\ (call.fn = "computeLoss" /\ call.data = <<>>) => call.result = 0
    /\ (call.fn = "computeGradient" /\ call.data = <<>>) =>
          call.result = [a |-> 0, b |-> 0]

C17_Witness ==
    /\ call.fn = "computeLoss"
    /\ call.type = "linear-regression"
    /\ call.data = <<>>
    /\ IsNaN(call.params.a)
    /\ call.result = 0

Mean(s) == Over(SumSeq(s), Len(s))

(* the gradient formulas as the problems state them *)
AnalyticGradient(type, data, params) ==
    LET n == Len(data)
        x(i) == data[i].x
        y(i) == data[i].y
        label(i) == IF data[i].label = 1 THEN Scale ELSE 0
        linear(i) == Times(2, Minus(Plus(FMul(params.a, x(i)), params.b), y(i)))
        polynomial(i) ==
            Times(2, Minus(Plus(FMul(FMul(params.a, x(i)), x(i)),
                                FMul(params.b, x(i))), y(i)))
        logistic(i) ==
            Minus(Sigmoid(Plus(FMul(params.a, x(i)), FMul(params.b, y(i)))), label(i))
    IN CASE type = "linear-regression" ->
              [a |-> Mean([i \in 1..n |-> FMul(linear(i), x(i))]),
               b |-> Mean([i \in 1..n |-> linear(i)])]
         [] type = "polynomial-regression" ->
              [a |-> Mean([i \in 1..n |-> FMul(FMul(polynomial(i), x(i)), x(i))]),
               b |-> Mean([i \in 1..n |-> FMul(polynomial(i), x(i))])]
         [] type = "logistic-regression" ->
              [a |-> Mean([i \in 1..n |-> FMul(logistic(i), x(i))]),
               b |-> Mean([i \in 1..n |-> FMul(logistic(i), y(i))])]

(* C18: on data that is not empty computeGradient is the analytic gradient of the
   problem's loss: the mean of 2(ax+b-y)x and of 2(ax+b-y) for linear regression,
   of 2(ax^2+bx-y)x^2 and of 2(ax^2+bx-y)x for polynomial regression, and of
   (sigma(ax+by)-label)x and of (sigma(ax+by)-label)y for logistic regression *)
C18_GradientIsAnalytic ==
    (call.fn = "computeGradient" /\ call.data # <<>>) =>
        call.result = AnalyticGradient(call.type, call.data, call.params)

C18_Witness ==
    /\ call.fn = "computeGradient"
    /\ call.type = "logistic-regression"
    /\ Len(call.data) = 3
    /\ call.params = [a |-> 150, b |-> 0 - 300]
    /\ call.result.a # 0
    /\ call.result.b # 0

(* C19: computeLoss is greater than or equal to 0 for every problem, dataset and
   parameter value *)
C19_LossIsNonNegative ==
    call.fn = "computeLoss" => AtLeast(call.result, 0)

(* C20: the landscape sampled at resolution R over [min, max] has R rows of R
   points; point (i, j) has a = min + i/(R-1)*(max-min) and
   b = min + j/(R-1)*(max-min), so the corners are exactly min and max; and the
   loss of each point is computeLoss of the data at its (a, b) *)
C20_LandscapeGrid ==
    call.fn = "computeLossLandscape" =>
        LET R == call.gridSize
            lo == call.paramRange.min
            hi == call.paramRange.max
            coordinate(i) == Plus(lo, Over(MulBy(i, Minus(hi, lo), 1), R - 1))
            grid == call.result
        IN /\ Len(grid) = R
           /\ \A i \in 1..R : Len(grid[i]) = R
           /\ \A i \in 1..R : \A j \in 1..R :
                 /\ grid[i][j].a = coordinate(i - 1)
                 /\ grid[i][j].b = coordinate(j - 1)
                 /\ grid[i][j].loss =
                        computeLoss(call.type, call.data,
                                    [a |-> grid[i][j].a, b |-> grid[i][j].b])
           /\ grid[1][1].a = lo /\ grid[1][1].b = lo
           /\ grid[R][R].a = hi /\ grid[R][R].b = hi

----------------------------------------------------------------------------
(* Properties of the picture of the loss landscape *)

(* C21: the losses of the landscape picture are recomputed only in a step that
   changes the dataset or the selected problem: a drag, a tick, a history append,
   a theme toggle and a resize never recompute them *)
C21_HeatmapOnlyOnDataOrProblem ==
    [][drawLossHeatmap =>
           datasetStore' # datasetStore \/ selectedProblem' # selectedProblem]_vars

----------------------------------------------------------------------------
(* Properties of the sidebar's steppers *)

BlurOps == {"blurNumPoints", "blurLearningRate", "blurTotalSteps"}

SettingsInRange ==
    /\ trainingStore.learningRate >= MinLearningRate
    /\ trainingStore.learningRate <= MaxLearningRate
    /\ trainingStore.totalSteps >= MinTotalSteps
    /\ trainingStore.totalSteps <= MaxTotalSteps
    /\ datasetStore.numPoints >= MinNumPoints
    /\ datasetStore.numPoints <= MaxNumPoints

(* C22: after any sequence of stepper clicks and committed text edits the learning
   rate is in [0.0001, 1], the number of training steps in [10, 1000] and the
   number of points in [10, 100]; an edit that does not parse leaves the values
   as they were *)
C22_SettingsStayInRange ==
    /\ SettingsInRange
    /\ [][/\ SettingsInRange'
          /\ (lastOp'.op \in BlurOps /\ IsNaN(lastOp'.arg)) =>
                 UNCHANGED <<trainingStore, datasetStore>>]_vars

(* texts that are out of range or do not parse were committed to every field *)
C22_Witness ==
    /\ lastOp.op = "blurLearningRate"
    /\ IsNaN(lastOp.arg)
    /\ datasetStore.numPoints = MaxNumPoints
    /\ trainingStore.totalSteps = MinTotalSteps

----------------------------------------------------------------------------
(* Properties of the decision boundary *)

(* q is the quotient x / y: rounded down where all three are finite, and 0,
   infinite or NaN where an operand is not finite or the quotient too large *)
IsQuotient(q, x, y) ==
    IF IsFinite(x) /\ IsFinite(y) /\ IsFinite(q)
    THEN IF y > 0 THEN q * y <= x * Scale /\ x * Scale < (q + 1) * y
         ELSE q * y >= x * Scale /\ x * Scale > (q + 1) * y
    ELSE IF IsFinite(x) /\ IsFinite(y)
         THEN q \in {Infinity, NegInfinity} /\ (Abs(x) * Scale) \div Abs(y) >= MaxValue
         ELSE q = 0 \/ ~IsFinite(q)

OnBoundary(x, y, params) == IsQuotient(y, FMul(Negate(params.a), x), params.b)

(* C23: with b = 0 the logistic predict returns 0 for every x and no decision
   boundary is drawn; with b # 0 predict returns -a*x/b, and the boundary drawn
   is the line of these values *)
C23_DecisionBoundary ==
    /\ call.fn = "predict" =>
           IF call.params.b = 0 THEN call.result = 0
           ELSE OnBoundary(call.x, call.result, call.params)
    /\ call.fn = "drawModelPrediction" =>
           IF call.params.b = 0 THEN call.result = <<>>
           ELSE /\ Len(call.result) = boundaryPoints + 1
                /\ call.result[1].x = call.xDomain.min
                /\ call.result[Len(call.result)].x = call.xDomain.max
                /\ \A k \in 1..Len(call.result) :
                       OnBoundary(call.result[k].x, call.result[k].y, call.params)

(* predict was called with b = 0 and a, x # 0 *)
C23_Witness ==
    /\ call.fn = "predict"
    /\ call.params.b = 0
    /\ call.params.a = 150
    /\ call.x = 100

----------------------------------------------------------------------------
(* Properties of the stores at the end of every handler *)

(* C24: after every completed tick, drag event, reset and problem switch the
   parameters in parametersStore are the parameters of the last history entry *)
C24_ParametersAreLastHistoryEntry ==
    mounted => parametersStore = Last(historyStore).parameters

(* a tick has moved the parameters after a drag had *)
C24_Witness ==
    /\ lastOp.op = "tick"
    /\ dragCount > 0
    /\ Len(historyStore) >= 3
    /\ parametersStore # historyStore[Len(historyStore) - 1].parameters

(* C25: after a problem is selected the single step-0 history entry holds the
   selected problem's losses of the reset parameters over the training and the
   test points of the dataset now in the store, the one generated for that
   problem *)
C25_StepZeroLossesOverNewDataset ==
    lastOp.op = "select" =>
        /\ Len(historyStore) = 1
        /\ historyStore[1] =
               historyPoint(0, selectedProblem, datasetStore.data, parametersStore)

(* C26: trainingStore.currentStep is the step of the last history entry after
   every handler, under any interleaving of ticks, drag events and resets *)
C26_CurrentStepIsLastHistoryStep ==
    mounted => trainingStore.currentStep = Last(historyStore).step

(* C27: the sidebar's isTraining flag, trainingStore.isTraining and the existence
   of a pending interval timer agree after every handler: all true while a run is
   in progress, all false otherwise *)
C27_TrainingFlagsAndTimerAgree ==
    /\ isTraining = trainingStore.isTraining
    /\ isTraining = (trainingInterval # NoTimer)
    /\ isTraining = (timers # {})

(* a run was followed to its last step and stopped itself *)
C27_Witness ==
    /\ lastOp.op = "expire"
    /\ ~isTraining
    /\ Last(historyStore).step = trainingStore.totalSteps
    /\ Len(historyStore) = trainingStore.totalSteps + 1

(* C28: while a run is in progress the progress shown,
   (currentStep - startingStepForProgress) / totalSteps * 100, is within
   [0, 100], also when the marker was dragged before or during the run and when
   totalSteps is changed during the run *)
C28_ProgressWithinRange ==
    isTraining => trainingProgress >= 0 /\ trainingProgress <= 100 * Scale

----------------------------------------------------------------------------
(* Properties of the dataset *)

(* C29: after regenerateData with numPoints in [10, 100] and a train ratio from
   0.1 to 0.9 the dataset has at least one training point and at least one test
   point, for every problem and in both split modes *)
C29_TrainingAndTestPointsExist ==
    call.fn = "regenerateData" =>
        /\ TrainingCount(call.result) >= 1
        /\ Len(call.result) - TrainingCount(call.result) >= 1

(* C30: once the page is initialised the dataset has numPoints points in every
   state, also between a click on the Data Points stepper and its debounced
   regeneration, whatever happens in between *)
C30_DataHasNumPointsPoints ==
    mounted => Len(datasetStore.data) = datasetStore.numPoints

====
